---------------------------- MODULE Spec2Model ----------------------------
(***************************************************************************)
(* ShareSlides: the deck catalog loader (src/lib/decks.ts, held in         *)
(* src/scripts/import-slideshare.mjs lines 207-281) as a state machine.    *)
(*                                                                         *)
(* The module-level constants deckModules and legacyStatsModule are the    *)
(* two inputs, fixed when the module is loaded; every exported function    *)
(* is an action that records its return value in `result`.                 *)
(*                                                                         *)
(* A deck is a record whose DOMAIN is the set of fields the JSON object    *)
(* has, so "the record has no legacyStats field" is                        *)
(* "legacyStats" \notin DOMAIN d.  Values of the legacy-stats file are     *)
(* tagged JSON values, because the code inspects their run-time type.      *)
(*                                                                         *)
(* The maintenance scripts (import-slideshare.mjs, assign-short-ids,       *)
(* add-category-field.mjs, import-slideshare-uploadedAt.mjs) work on the   *)
(* directory of deck files, decksDir; each has a specification of its own  *)
(* whose steps are the iterations of the script's loop, with the script's  *)
(* local variables in proc.  The asset-preparation script                  *)
(* (src/unnamed/part_001) works on public/decks in the same way.           *)
(***************************************************************************)
EXTENDS Integers, Sequences, FiniteSets, TLC

VARIABLES
    deckModules,        \* import.meta.glob('../content/decks/*.json'): entries <<path, deck>> in key order
    legacyStatsModule,  \* import.meta.glob('../content/legacy-stats.json'): 0 or 1 table
    call,               \* the exported function that has just returned, with its argument; op "none" between calls
    result,             \* what that call returned (a sequence; find() gives <<>> or <<deck>>)
    sortImpl,           \* the order the engine's Array.prototype.sort gave the merged decks: <<>> before the first sort, then <<p>>
    decksDir,           \* the directory a script works on: src/content/decks, filename -> parsed file; public/decks in prepare-assets
    proc                \* the maintenance script that is running, with its local variables; script "none" in the loader

vars == <<deckModules, legacyStatsModule, call, result, sortImpl, decksDir, proc>>

---------------------------------------------------------------------------
(* Bounds of the model *)

\* at most this many deck files in the sort scenarios
MaxSortDecks == 4
\* at most this many deck files in the load scenarios
MaxLoadDecks == 3
\* at most this many deck files in the tag scenarios
MaxTagDecks == 2
\* at most this many deck files in the merge scenarios
MaxMergeDecks == 2
\* at most this many deck files in the lookup scenarios
MaxLookupDecks == 3

---------------------------------------------------------------------------
(* JSON values, as far as the loader looks at them *)

JUndef == [kind |-> "undefined"]
JNull == [kind |-> "null"]
JNum(n) == [kind |-> "number", num |-> n]
JStr(s) == [kind |-> "string", str |-> s]
JObj(f) == [kind |-> "object", fields |-> f]

\* ToBoolean of a JSON value (the `stats &&` test)
Truthy(v) ==
    CASE v.kind = "object" -> TRUE
      [] v.kind = "number" -> v.num # 0
      [] v.kind = "string" -> v.str # ""
      [] OTHER -> FALSE

\* typeof v === 'object' (true of null as well)
TypeofObject(v) == v.kind \in {"object", "null"}

\* v?.name : undefined on null/undefined and on a missing property
OptionalProp(v, name) ==
    IF v.kind = "object" /\ name \in DOMAIN v.fields THEN v.fields[name] ELSE JUndef

\* table[key] on the parsed JSON object.  Only own properties are modelled: what
\* a key inherits from Object.prototype is a function or an object without
\* views, which fails the stats-shape test exactly as undefined does.
Lookup(table, key) == IF key \in DOMAIN table THEN table[key] ELSE JUndef

---------------------------------------------------------------------------
(* The module-level constants of decks.ts *)

EmptyObject == [k \in {} |-> JUndef]

legacyStatsData == IF Len(legacyStatsModule) = 0 THEN EmptyObject ELSE legacyStatsModule[1]

legacyStatsMeta == Lookup(legacyStatsData, "_meta")

---------------------------------------------------------------------------
(* getDeckIdFromPath: path.match(/\/([^/]+)\.json$/).  A path is a sequence *)
(* of tokens; "/" and the suffix ".json" are tokens of their own.           *)

RECURSIVE Concat(_)
Concat(toks) == IF toks = <<>> THEN "" ELSE Head(toks) \o Concat(Tail(toks))

SlashPositions(path) == {i \in 1..Len(path) : path[i] = "/"}

LastSlash(path) == CHOOSE i \in SlashPositions(path) : \A j \in SlashPositions(path) : j <= i

getDeckIdFromPath(path) ==
    IF /\ Len(path) >= 3
       /\ path[Len(path)] = ".json"
       /\ SlashPositions(path) # {}
       /\ LastSlash(path) <= Len(path) - 2
    THEN Concat(SubSeq(path, LastSlash(path) + 1, Len(path) - 1))
    ELSE ""

---------------------------------------------------------------------------
(* getAllDecks, first half: the merge of the legacy stats *)

Has(d, f) == f \in DOMAIN d

\* mutant: deck.slug ?? getDeckIdFromPath(path), an empty slug is used as key
DeckIdNullish(path, deck) == IF Has(deck, "slug") THEN deck.slug ELSE getDeckIdFromPath(path)

\* deck.slug || getDeckIdFromPath(path)
DeckId(path, deck) ==
    IF Has(deck, "slug") /\ deck.slug # "" THEN deck.slug ELSE getDeckIdFromPath(path)

\* stats && typeof stats === 'object' && 'views' in stats
StatsShaped(stats) ==
    Truthy(stats) /\ TypeofObject(stats) /\ "views" \in DOMAIN stats.fields

\* mutant: { capturedAt: legacyStatsMeta?.capturedAt, ...stats }, the entry's own capturedAt wins
MergedStatsEntryWins(stats) ==
    stats.fields @@ ("capturedAt" :> OptionalProp(legacyStatsMeta, "capturedAt"))

\* { ...stats, capturedAt: legacyStatsMeta?.capturedAt }
MergedStats(stats) ==
    ("capturedAt" :> OptionalProp(legacyStatsMeta, "capturedAt")) @@ stats.fields

\* mutant: a deck without stats gets zeroed placeholder stats
EnrichWithPlaceholder(deck, deckId) ==
    LET stats == Lookup(legacyStatsData, deckId)
    IN IF StatsShaped(stats) THEN ("legacyStats" :> MergedStats(stats)) @@ deck
       ELSE ("legacyStats" :> [likes |-> JNum(0), views |-> JNum(0), downloads |-> JNum(0)]) @@ deck

\* the look-up of the legacy stats by deck ID, and what the callback returns
Enrich(deck, deckId) ==
    LET stats == Lookup(legacyStatsData, deckId)
    IN IF StatsShaped(stats) THEN ("legacyStats" :> MergedStats(stats)) @@ deck ELSE deck

\* the callback of Object.entries(deckModules).map
MergeDeck(path, deck) == Enrich(deck, DeckId(path, deck))

\* mutant: the callback returns nothing for a deck without stats, and the
\* holes are filtered out
MergedDecksMatchedOnly ==
    SelectSeq([i \in 1..Len(deckModules) |-> MergeDeck(deckModules[i].path, deckModules[i].deck)],
              LAMBDA d : Has(d, "legacyStats"))

\* Object.entries(deckModules).map(...)
MergedDecks == [i \in 1..Len(deckModules) |-> MergeDeck(deckModules[i].path, deckModules[i].deck)]

---------------------------------------------------------------------------
(* getAllDecks, second half: the sort *)

\* a JavaScript number: NaN or an integer
NaN == [nan |-> TRUE, val |-> 0]
Num(n) == [nan |-> FALSE, val |-> n]
Minus(x, y) == IF x.nan \/ y.nan THEN NaN ELSE Num(x.val - y.val)

\* The uploadedAt strings of the model
T2020 == "2020-01-01T00:00:00Z"
T2020Offset == "2020-01-01T02:00:00+02:00"
T2022 == "2022-01-01T00:00:00Z"
Malformed == "not-a-date"

\* new Date(s).getTime(), in seconds since the epoch (the milliseconds do not
\* fit the model checker's integers); NaN for a string Date cannot parse
DateGetTime(s) ==
    CASE s = T2020 -> Num(1577836800)
      [] s = T2020Offset -> Num(1577836800)
      [] s = T2022 -> Num(1640995200)
      [] OTHER -> NaN

\* !d.uploadedAt
NoUploadedAt(d) == ~Has(d, "uploadedAt") \/ d.uploadedAt = ""

\* the comparator handed to decks.sort
comparefn(a, b) ==
    IF NoUploadedAt(a) /\ NoUploadedAt(b) THEN Num(0)
    ELSE IF NoUploadedAt(a) THEN Num(1)
    ELSE IF NoUploadedAt(b) THEN Num(-1)
    ELSE Minus(DateGetTime(b.uploadedAt), DateGetTime(a.uploadedAt))

\* ECMAScript SortCompare: a NaN from the comparator counts as +0
SortCompare(a, b) == LET v == comparefn(a, b) IN IF v.nan THEN 0 ELSE v.val

\* the comparisons of the elements of arr with each other, by index
CompareTable(arr) == [i \in 1..Len(arr) |-> [j \in 1..Len(arr) |-> SortCompare(arr[i], arr[j])]]

\* ECMAScript "consistent comparator" over the values being sorted
ConsistentComparator(c) ==
    LET I == 1..Len(c)
        lt(i, j) == c[i][j] < 0
        eq(i, j) == c[i][j] = 0
        gt(i, j) == c[i][j] > 0
    IN /\ \A i \in I : eq(i, i)
       /\ \A i, j \in I : (eq(i, j) => eq(j, i)) /\ (lt(i, j) => gt(j, i))
       /\ \A i, j, k \in I :
            /\ (eq(i, j) /\ eq(j, k)) => eq(i, k)
            /\ (lt(i, j) /\ lt(j, k)) => lt(i, k)
            /\ (gt(i, j) /\ gt(j, k)) => gt(i, k)

\* all orderings of the indices 1..n
RECURSIVE Orderings(_)
Orderings(S) ==
    IF S = {} THEN {<<>>}
    ELSE UNION {{<<i>> \o p : p \in Orderings(S \ {i})} : i \in S}

\* p puts arr in sort order and keeps equal elements in their input order
StableSorted(c, p) ==
    \A i, j \in 1..Len(p) :
        i < j => \/ c[p[i]][p[j]] < 0
                 \/ c[p[i]][p[j]] = 0 /\ p[i] < p[j]

\* mutant: a sort that rejects an inconsistent comparator by throwing
SortOrdersOrThrow(arr) ==
    LET c == CompareTable(arr)
    IN {p \in Orderings(1..Len(arr)) : StableSorted(c, p)}

\* Array.prototype.sort: the index orderings it may produce.  With a consistent
\* comparator the stable sorted order; otherwise the order is
\* implementation-defined, and any permutation of the elements may come out.
SortOrders(arr) ==
    LET c == CompareTable(arr)
    IN IF ConsistentComparator(c)
       THEN {p \in Orderings(1..Len(arr)) : StableSorted(c, p)}
       ELSE Orderings(1..Len(arr))

Permute(arr, p) == [i \in 1..Len(p) |-> arr[p[i]]]

\* The engine's sort is a deterministic algorithm: which of the allowed orders
\* comes out is fixed by the build, so a second sort of the same array with
\* the same comparator gives the order the first one gave.
EngineOrders(arr) == IF sortImpl = <<>> THEN SortOrders(arr) ELSE {sortImpl[1]}

\* the values getAllDecks() may return
getAllDecks == LET decks == MergedDecks IN {Permute(decks, p) : p \in EngineOrders(decks)}

---------------------------------------------------------------------------
(* Array.prototype.find: first element satisfying the predicate, <<>> for undefined *)

\* hits: the indices of arr whose element satisfies the predicate
FirstIndex(hits) == CHOOSE i \in hits : \A j \in hits : i <= j

Find(arr, hits) == IF hits # {} THEN <<arr[FirstIndex(hits)]>> ELSE <<>>

\* deck.slug === slug
SlugIs(deck, slug) == Has(deck, "slug") /\ deck.slug = slug

\* mutant: (deck.shortId ?? shortId) === shortId, a deck without shortId matches
ShortIdIsOrUnset(deck, shortId) == ~Has(deck, "shortId") \/ deck.shortId = shortId

\* deck.shortId === shortId
ShortIdIs(deck, shortId) == Has(deck, "shortId") /\ deck.shortId = shortId

\* mutant: the search runs over the deck files as loaded, not over getAllDecks()
getDeckBySlugUnmerged(slug) ==
    {Find([i \in 1..Len(deckModules) |-> deckModules[i].deck],
          {i \in 1..Len(deckModules) : SlugIs(deckModules[i].deck, slug)})}

getDeckBySlug(slug) == LET decks == getAllDecks IN {Find(all, {i \in 1..Len(all) : SlugIs(all[i], slug)}) : all \in decks}

getDeckByShortId(shortId) == LET decks == getAllDecks IN {Find(all, {i \in 1..Len(all) : ShortIdIs(all[i], shortId)}) : all \in decks}

---------------------------------------------------------------------------
(* getAllTags: flatMap, Set, and the default sort *)

\* The UTF-16 code units of the tag strings of the model; Array.prototype.sort
\* without a comparator orders strings by them.
CodeUnits(s) ==
    CASE s = "ai" -> <<97, 105>>
      [] s = "cr" -> <<99, 114>>
      [] s = "crm" -> <<99, 114, 109>>
      [] s = "Zoo" -> <<90, 111, 111>>

\* a < b for sequences of code units: a proper prefix, or smaller at the first difference
RECURSIVE CodeUnitsLess(_, _)
CodeUnitsLess(a, b) ==
    IF b = <<>> THEN FALSE
    ELSE IF a = <<>> THEN TRUE
    ELSE IF Head(a) # Head(b) THEN Head(a) < Head(b)
    ELSE CodeUnitsLess(Tail(a), Tail(b))

StringLess(s, t) == CodeUnitsLess(CodeUnits(s), CodeUnits(t))

\* decks.flatMap((deck) => deck.tags)
RECURSIVE FlatTags(_)
FlatTags(all) == IF all = <<>> THEN <<>> ELSE Head(all).tags \o FlatTags(Tail(all))

\* mutant: [...tags] without the Set, duplicates stay
SpreadOfArray(tags) == tags

\* [...new Set(tags)]: the first occurrence of every value, in insertion order
SpreadOfSet(tags) ==
    LET firsts == {i \in 1..Len(tags) : \A j \in 1..(i - 1) : tags[j] # tags[i]}
    IN [k \in 1..Cardinality(firsts) |->
           tags[CHOOSE i \in firsts : Cardinality({j \in firsts : j <= i}) = k]]

\* .sort() with the default comparator: strings in ascending code-unit order,
\* equal strings in their input order
DefaultSort(strs) ==
    LET p == CHOOSE q \in Orderings(1..Len(strs)) :
                \A i, j \in 1..Len(q) :
                    i < j => \/ StringLess(strs[q[i]], strs[q[j]])
                             \/ strs[q[i]] = strs[q[j]] /\ q[i] < q[j]
    IN Permute(strs, p)

\* the values getAllTags() may return
getAllTags ==
    LET tagLists == {FlatTags(all) : all \in getAllDecks}
    IN {DefaultSort(unique) : unique \in {SpreadOfSet(tags) : tags \in tagLists}}

---------------------------------------------------------------------------
(* The inputs: deck files and the legacy-stats file *)

\* the loader runs in the site build; no maintenance script is running
NoScript == decksDir = <<>> /\ proc = [script |-> "none"]

\* filename stems of the deck files, in the order import.meta.glob lists them
Stems == <<"a", "b", "c", "d", "e", "f">>

\* the key import.meta.glob gives the file of a stem
PathOf(stem) == <<"..", "/", "content", "/", "decks", "/", stem, ".json">>

\* a deck file as the import script writes it, without the optional fields
BaseDeck(stem) == [title |-> "Deck " \o stem, tags |-> <<"crm">>, language |-> "en"]

\* an optional field: opt is <<>> (field absent) or <<value>>
WithOptional(d, f, opt) == IF opt = <<>> THEN d ELSE (f :> opt[1]) @@ d

Entry(stem, deck) == [path |-> PathOf(stem), deck |-> deck]

CapturedAt == JStr("2025-01-01T00:00:00Z")

StatsA == JObj([likes |-> JNum(1), views |-> JNum(10), downloads |-> JNum(2)])

StatsB == JObj([likes |-> JNum(3), views |-> JNum(30), downloads |-> JNum(4)])

\* the example table of the documentation: shared _meta and one entry
SampleTable == [k \in {"_meta", "a"} |-> IF k = "_meta" THEN JObj([capturedAt |-> CapturedAt]) ELSE StatsA]

DateChoices == {<<>>, <<T2020>>, <<T2020Offset>>, <<T2022>>, <<Malformed>>}

\* Sort scenarios: every deck has its stem as slug; uploadedAt varies freely
InitSort ==
    /\ \E n \in 0..MaxSortDecks :
         \E dates \in [1..n -> DateChoices] :
           deckModules = [i \in 1..n |->
               Entry(Stems[i], WithOptional(WithOptional(BaseDeck(Stems[i]), "slug", <<Stems[i]>>),
                                            "uploadedAt", dates[i]))]
    /\ legacyStatsModule = <<SampleTable>>
    /\ call = [op |-> "none"]
    /\ result = <<>>
    /\ sortImpl = <<>>
    /\ NoScript

\* Load scenarios: as the sort scenarios, over fewer files
InitLoad ==
    /\ \E n \in 0..MaxLoadDecks :
         \E dates \in [1..n -> DateChoices] :
           deckModules = [i \in 1..n |->
               Entry(Stems[i], WithOptional(WithOptional(BaseDeck(Stems[i]), "slug", <<Stems[i]>>),
                                            "uploadedAt", dates[i]))]
    /\ legacyStatsModule = <<SampleTable>>
    /\ call = [op |-> "none"]
    /\ result = <<>>
    /\ sortImpl = <<>>
    /\ NoScript

\* an object with the given optional properties: opts[k] is <<>> or <<value>>
ObjectOf(opts) == [k \in {x \in DOMAIN opts : opts[x] # <<>>} |-> opts[k][1]]

\* entries the legacy-stats file may hold under a deck key: well-formed stats,
\* stats carrying a capturedAt and privacy of their own, an object without
\* views, an object whose views is not a number, null, a bare number
StatsOwnCapturedAt ==
    JObj([likes |-> JNum(5), views |-> JNum(50), downloads |-> JNum(6),
          privacy |-> JStr("public"), capturedAt |-> JStr("1999-12-31T00:00:00Z")])

EntryChoices ==
    {<<>>, <<StatsA>>, <<StatsOwnCapturedAt>>, <<JObj([likes |-> JNum(1)])>>,
     <<JObj([likes |-> JNum(1), views |-> JStr("n/a")])>>, <<JNull>>, <<JNum(7)>>}

MetaChoices == {<<>>, <<JObj([capturedAt |-> CapturedAt])>>, <<JObj(EmptyObject)>>, <<JNull>>}

\* slugs a deck file may carry: none, empty, a key of the table, no key of the table
SlugChoices == {<<>>, <<"">>, <<"a">>, <<"b">>, <<"_meta">>, <<"zz">>}

\* uploadedAt of the i-th deck file in the merge and lookup scenarios
DateOfIndex(i) ==
    CASE i % 4 = 1 -> <<T2020>>
      [] i % 4 = 2 -> <<T2022>>
      [] i % 4 = 3 -> <<>>
      [] OTHER -> <<T2020Offset>>

\* Merge scenarios: slugs and the legacy-stats file vary freely
InitMerge ==
    /\ \E n \in 0..MaxMergeDecks :
         \E slugs \in [1..n -> SlugChoices] :
           deckModules = [i \in 1..n |->
               Entry(Stems[i], WithOptional(WithOptional(BaseDeck(Stems[i]), "slug", slugs[i]),
                                            "uploadedAt", DateOfIndex(i)))]
    /\ \/ legacyStatsModule = <<>>
       \/ \E a \in EntryChoices, b \in {<<>>, <<StatsB>>}, m \in MetaChoices :
            legacyStatsModule = <<ObjectOf([k \in {"a", "b", "_meta"} |->
                                     CASE k = "a" -> a [] k = "b" -> b [] OTHER -> m])>>
    /\ call = [op |-> "none"]
    /\ result = <<>>
    /\ sortImpl = <<>>
    /\ NoScript

\* Lookup scenarios: slugs (unique or clashing with deck "a") and short IDs vary
InitLookup ==
    /\ \E n \in 0..MaxLookupDecks :
         \E slugs \in [1..n -> {<<>>, <<"own">>, <<"a">>}], ids \in [1..n -> {<<>>, <<1>>, <<2>>}] :
           deckModules = [i \in 1..n |->
               Entry(Stems[i],
                     WithOptional(
                       WithOptional(
                         WithOptional(BaseDeck(Stems[i]), "slug",
                                      IF slugs[i] = <<"own">> THEN <<Stems[i]>> ELSE slugs[i]),
                         "shortId", ids[i]),
                       "uploadedAt", DateOfIndex(i)))]
    /\ legacyStatsModule = <<SampleTable>>
    /\ call = [op |-> "none"]
    /\ result = <<>>
    /\ sortImpl = <<>>
    /\ NoScript

\* tags a deck file may carry
TagPool == {"ai", "cr", "crm", "Zoo"}

\* tag lists of a deck file: empty, one tag, two tags (a tag may be repeated)
TagLists == {<<>>} \cup {<<t>> : t \in TagPool} \cup {<<t, u>> : t, u \in TagPool}

\* Tag scenarios: the tags vary freely
InitTags ==
    /\ \E n \in 0..MaxTagDecks :
         \E tags \in [1..n -> TagLists] :
           deckModules = [i \in 1..n |->
               Entry(Stems[i], WithOptional(WithOptional([BaseDeck(Stems[i]) EXCEPT !.tags = tags[i]],
                                                         "slug", <<Stems[i]>>),
                                            "uploadedAt", DateOfIndex(i)))]
    /\ legacyStatsModule = <<SampleTable>>
    /\ call = [op |-> "none"]
    /\ result = <<>>
    /\ sortImpl = <<>>
    /\ NoScript

---------------------------------------------------------------------------
(* The exported functions as actions.  The code is synchronous and           *)
(* single-threaded: a call runs to its return, the caller takes the result   *)
(* (Return), and only then can the next call start.                          *)

Idle == call.op = "none"

\* arguments tried for getDeckBySlug
SlugArgs == {"a", "b", "c", "", "zz"}

\* arguments tried for getDeckByShortId are 1..MaxShortIdArg
MaxShortIdArg == 3

\* mutant: the merge assigns deck.legacyStats on the imported object itself
DeckModulesMergedInPlace ==
    LET decks == MergedDecks IN [i \in 1..Len(deckModules) |-> [path |-> deckModules[i].path, deck |-> decks[i]]]

\* What a call leaves in the module-level deckModules: map() builds a new
\* array, the spread a new object for a matched deck, and sort() orders that
\* new array; nothing is assigned to the imported modules.
DeckModulesAfterCall == deckModules

\* the values the call c may return
Outcomes(c) ==
    CASE c.op = "getAllDecks" -> getAllDecks
      [] c.op = "getDeckBySlug" -> getDeckBySlug(c.slug)
      [] c.op = "getDeckByShortId" -> getDeckByShortId(c.shortId)
      [] c.op = "getAllTags" -> getAllTags

\* every exported function starts by sorting the merged decks; the engine
\* orders them as it did before, or for the first time
Invoke(c) ==
    /\ sortImpl' \in {<<p>> : p \in EngineOrders(MergedDecks)}
    /\ deckModules' = DeckModulesAfterCall
    /\ UNCHANGED <<legacyStatsModule, decksDir, proc>>
    /\ call' = c
    /\ result' \in Outcomes(c)'

GetAllDecks == Idle /\ Invoke([op |-> "getAllDecks"])

GetDeckBySlug(slug) == Idle /\ Invoke([op |-> "getDeckBySlug", slug |-> slug])

GetDeckByShortId(shortId) == Idle /\ Invoke([op |-> "getDeckByShortId", shortId |-> shortId])

GetAllTags == Idle /\ Invoke([op |-> "getAllTags"])

\* the caller calls the same function with the same argument once more
CallAgain == ~Idle /\ Invoke(call)

Return ==
    /\ ~Idle
    /\ call' = [op |-> "none"]
    /\ result' = <<>>
    /\ UNCHANGED <<deckModules, legacyStatsModule, sortImpl, decksDir, proc>>

Next ==
    \/ GetAllDecks
    \/ \E slug \in SlugArgs : GetDeckBySlug(slug)
    \/ \E shortId \in 1..MaxShortIdArg : GetDeckByShortId(shortId)
    \/ GetAllTags
    \/ CallAgain
    \/ Return

Spec == InitSort /\ [][Next]_vars

SpecMerge == InitMerge /\ [][Next]_vars

SpecLookup == InitLookup /\ [][Next]_vars

SpecLoad == InitLoad /\ [][Next]_vars

SpecTags == InitTags /\ [][Next]_vars

---------------------------------------------------------------------------
(* scripts/import-slideshare.mjs: strings are sequences of characters *)

\* the slug length limit of slugify
SlugLimit == 60
\* generateSlug replaces a slug shorter than this by deck-<id>
MinSlugLength == 3

LowerLetters == <<"a", "b", "c", "d", "e", "f", "g", "h", "i", "j", "k", "l", "m",
                  "n", "o", "p", "q", "r", "s", "t", "u", "v", "w", "x", "y", "z">>

UpperLetters == <<"A", "B", "C", "D", "E", "F", "G", "H", "I", "J", "K", "L", "M",
                  "N", "O", "P", "Q", "R", "S", "T", "U", "V", "W", "X", "Y", "Z">>

DigitChars == <<"0", "1", "2", "3", "4", "5", "6", "7", "8", "9">>

Range(seq) == {seq[i] : i \in 1..Len(seq)}

\* U+0301 COMBINING ACUTE ACCENT, a character of the range \\u0300-\\u036f
CombiningAcute == "U+0301"

\* String.prototype.toLowerCase, character by character
ToLowerCase(text) ==
    [i \in 1..Len(text) |->
        IF text[i] \in Range(UpperLetters)
        THEN LowerLetters[CHOOSE k \in 1..Len(UpperLetters) : UpperLetters[k] = text[i]]
        ELSE IF text[i] = "É" THEN "é" ELSE text[i]]

\* String.prototype.normalize('NFD'): a precomposed letter becomes letter + combining mark
RECURSIVE NormalizeNFD(_)
NormalizeNFD(text) ==
    IF text = <<>> THEN <<>>
    ELSE (CASE Head(text) = "é" -> <<"e", CombiningAcute>>
            [] Head(text) = "É" -> <<"E", CombiningAcute>>
            [] OTHER -> <<Head(text)>>) \o NormalizeNFD(Tail(text))

\* .replace(/[\\u0300-\\u036f]/g, '')
RemoveDiacritics(text) == SelectSeq(text, LAMBDA c : c # CombiningAcute)

\* [a-z0-9]
IsSlugAlnum(c) == c \in Range(LowerLetters) \cup Range(DigitChars)

\* .replace(/[^a-z0-9]+/g, '-'): every maximal run of other characters becomes one hyphen
RECURSIVE HyphenateRuns(_)
HyphenateRuns(text) ==
    IF text = <<>> THEN <<>>
    ELSE IF IsSlugAlnum(Head(text)) THEN <<Head(text)>> \o HyphenateRuns(Tail(text))
    ELSE IF Len(text) > 1 /\ ~IsSlugAlnum(text[2]) THEN HyphenateRuns(Tail(text))
    ELSE <<"-">> \o HyphenateRuns(Tail(text))

\* .replace(/^-+|-+$/g, '')
RECURSIVE TrimHyphens(_)
TrimHyphens(text) ==
    IF text = <<>> THEN <<>>
    ELSE IF Head(text) = "-" THEN TrimHyphens(Tail(text))
    ELSE IF text[Len(text)] = "-" THEN TrimHyphens(SubSeq(text, 1, Len(text) - 1))
    ELSE text

\* .substring(0, n)
Substring0(text, n) == SubSeq(text, 1, IF Len(text) < n THEN Len(text) ELSE n)

slugify(text) ==
    Substring0(TrimHyphens(HyphenateRuns(RemoveDiacritics(NormalizeNFD(ToLowerCase(text))))), SlugLimit)

\* `deck-${id}`
DeckPrefix == <<"d", "e", "c", "k", "-">>

generateSlug(title, id, existingSlugs) ==
    LET slugified == slugify(title)
        baseSlug == IF slugified = <<>> \/ Len(slugified) < MinSlugLength
                    THEN DeckPrefix \o id
                    ELSE slugified
    IN IF baseSlug \in existingSlugs THEN baseSlug \o <<"-">> \o id ELSE baseSlug

\* String(n) of a non-negative integer
RECURSIVE DecimalString(_)
DecimalString(n) ==
    IF n < 10 THEN <<DigitChars[n + 1]>>
    ELSE DecimalString(n \div 10) \o <<DigitChars[(n % 10) + 1]>>

\* url.match(/-(\d+)$/): the digits after the last hyphen when only digits,
\* and at least one, follow it; <<>> when there is no match
UrlIdMatch(url) ==
    LET hyphens == {i \in 1..Len(url) : url[i] = "-"}
        tails == {i \in hyphens : i < Len(url) /\ \A j \in (i + 1)..Len(url) : url[j] \in Range(DigitChars)}
    IN IF tails = {} THEN <<>> ELSE LET i == CHOOSE k \in tails : TRUE IN SubSeq(url, i + 1, Len(url))

\* item is a JSON object: its DOMAIN is the set of fields it has; index is 0-based
extractId(item, index) ==
    IF Has(item, "url") /\ item.url # <<>> /\ UrlIdMatch(item.url) # <<>> THEN UrlIdMatch(item.url)
    ELSE IF Has(item, "id") /\ item.id # 0 THEN DecimalString(item.id)
    ELSE DecimalString(index + 1)

\* `Untitled Deck ${id}`
UntitledPrefix == <<"U", "n", "t", "i", "t", "l", "e", "d", " ", "D", "e", "c", "k", " ">>

\* The deck processSlideshow builds.  The items of the model have no tags,
\* language, description or download_url: parseTags gives [] and
\* normalizeLanguage 'en', and source holds the slideshareUrl only.
processSlideshow(item, index, existingSlugs) ==
    LET id == extractId(item, index)
        title == IF Has(item, "title") /\ item.title # <<>> THEN item.title ELSE UntitledPrefix \o id
        slug == generateSlug(title, id, existingSlugs)
        deck == [slug |-> slug, title |-> title, tags |-> <<>>, language |-> "en",
                 assets |-> [pdf |-> <<"/decks/">> \o slug \o <<"/deck.pdf">>,
                             cover |-> <<"/decks/">> \o slug \o <<"/cover.webp">>]]
    IN IF Has(item, "url") /\ item.url # <<>>
       THEN ("source" :> [slideshareUrl |-> item.url]) @@ deck
       ELSE deck

\* join(OUTPUT_DIR, `${deck.slug}.json`), as the name of the file in the directory
OutputPath(slug) == slug \o <<".json">>

\* mutant: the file is written whether or not it exists
WriteAlways(dir, path, deck) == (path :> deck) @@ dir

\* if (existsSync(outputPath)) continue; writeFileSync(outputPath, ...)
WriteIfAbsent(dir, path, deck) == IF path \in DOMAIN dir THEN dir ELSE (path :> deck) @@ dir

\* the loader is not part of a script run
NoLoader ==
    /\ deckModules = <<>>
    /\ legacyStatsModule = <<>>
    /\ call = [op |-> "none"]
    /\ result = <<>>
    /\ sortImpl = <<>>

\* at most this many slideshows in the export
MaxSlideshows == 3

HelloWorldUrl == <<"https://www.slideshare.net/jukkan/hello-world", "-", "1", "2", "3">>

\* a title longer than the limit whose slug has a hyphen at the limit
LongTitle == [i \in 1..(SlugLimit - 1) |-> "a"] \o <<" ", "b", "c">>

\* slideshows of an export: titled with an id in the URL; the same title
\* spelled with an accent, capitals and punctuation, id field; a title ending
\* in digits; no title; a title too short for a slug, URL without id; a long title
ItemChoices ==
    {[title |-> <<"H", "e", "l", "l", "o", " ", "W", "o", "r", "l", "d">>, url |-> HelloWorldUrl],
     [title |-> <<"H", "É", "L", "L", "O", " ", " ", "w", "o", "r", "l", "d", "!">>, id |-> 123],
     [title |-> <<"H", "e", "l", "l", "o", " ", "W", "o", "r", "l", "d", " ", "1", "2", "3">>],
     [title |-> <<>>],
     [title |-> <<"A", "B">>, url |-> <<"https://www.slideshare.net/jukkan/ab">>],
     [title |-> LongTitle]}

\* a deck file that is in the directory before the run
OldDeck(slug) == [slug |-> slug, title |-> <<"k", "e", "p", "t">>, tags |-> <<>>, language |-> "en"]

\* slugs of deck files that may be in the directory before the run
OldSlugs == {<<"h", "e", "l", "l", "o", "-", "w", "o", "r", "l", "d">>, <<"d", "e", "c", "k", "-", "1">>}

\* the state at the start of the loop of importSlideShare
ImportStart(slideshows, run, slugs) ==
    [script |-> "import", run |-> run, slideshows |-> slideshows, i |-> 0,
     existingSlugs |-> {}, created |-> 0, skipped |-> 0, slugs |-> slugs]

InitImport ==
    /\ NoLoader
    /\ \E old \in SUBSET OldSlugs :
         decksDir = [path \in {OutputPath(s) : s \in old} |->
                        OldDeck(CHOOSE s \in old : OutputPath(s) = path)]
    /\ \E n \in 0..MaxSlideshows :
         \E slideshows \in [1..n -> ItemChoices] :
           proc = ImportStart(slideshows, 1, <<>>)

\* one iteration of the loop; slugs records deck.slug of every iteration of the first run
ImportItem ==
    /\ proc.script = "import"
    /\ proc.i < Len(proc.slideshows)
    /\ LET deck == processSlideshow(proc.slideshows[proc.i + 1], proc.i, proc.existingSlugs)
           outputPath == OutputPath(deck.slug)
           exists == outputPath \in DOMAIN decksDir
       IN /\ decksDir' = WriteIfAbsent(decksDir, outputPath, deck)
          /\ proc' = [proc EXCEPT !.i = @ + 1,
                                  !.existingSlugs = @ \cup {deck.slug},
                                  !.skipped = IF exists THEN @ + 1 ELSE @,
                                  !.created = IF exists THEN @ ELSE @ + 1,
                                  !.slugs = IF proc.run = 1 THEN Append(@, deck.slug) ELSE @]
    /\ UNCHANGED <<deckModules, legacyStatsModule, call, result, sortImpl>>

\* the script is run a second time over the same export
ImportAgain ==
    /\ proc.script = "import"
    /\ proc.run = 1
    /\ proc.i = Len(proc.slideshows)
    /\ proc' = ImportStart(proc.slideshows, 2, proc.slugs)
    /\ UNCHANGED <<deckModules, legacyStatsModule, call, result, sortImpl, decksDir>>

NextImport == ImportItem \/ ImportAgain

SpecImport == InitImport /\ [][NextImport]_vars

---------------------------------------------------------------------------
(* The directory of deck files as the maintenance scripts read it *)

\* the name of the deck file of a stem, and a file that is no deck file
JsonFile(stem) == <<stem, ".json">>

ReadmeFile == <<"README", ".md">>

\* f.endsWith('.json')
EndsWithJson(filename) == filename[Len(filename)] = ".json"

\* readdir(...).filter(f => f.endsWith('.json')), as a set: the order in which
\* readdir lists the entries is the file system's
JsonFiles == {f \in DOMAIN decksDir : EndsWithJson(f)}

---------------------------------------------------------------------------
(* assign-short-ids (src/unnamed/part_002) *)

\* at most this many deck files in the short-ID scenarios
MaxShortIdDecks == 3

Infinity == [nan |-> FALSE, val |-> 0, inf |-> TRUE]

IsInfinity(x) == "inf" \in DOMAIN x

\* a.data.uploadedAt ? new Date(a.data.uploadedAt).getTime() : Infinity
ShortIdSortKey(data) ==
    IF Has(data, "uploadedAt") /\ data.uploadedAt # "" THEN DateGetTime(data.uploadedAt) ELSE Infinity

\* dateA - dateB as sort reads it: NaN (an unparseable date, or Infinity -
\* Infinity) counts as 0, +Infinity as positive, -Infinity as negative
ShortIdCompare(a, b) ==
    LET dateA == ShortIdSortKey(a.data)
        dateB == ShortIdSortKey(b.data)
    IN IF dateA.nan \/ dateB.nan THEN 0
       ELSE IF IsInfinity(dateA) /\ IsInfinity(dateB) THEN 0
       ELSE IF IsInfinity(dateA) THEN 1
       ELSE IF IsInfinity(dateB) THEN 0 - 1
       ELSE dateA.val - dateB.val

\* Array.prototype.sort for a table of comparator results, as SortOrders
SortOrdersOfTable(c) ==
    IF ConsistentComparator(c)
    THEN {p \in Orderings(1..Len(c)) : StableSorted(c, p)}
    ELSE Orderings(1..Len(c))

\* the arrays `decks` may be after lines 13-31: the files in some readdir
\* order, loaded and sorted
SortedDeckFiles ==
    UNION {LET decks == [i \in 1..Len(files) |-> [filename |-> files[i], data |-> decksDir[files[i]]]]
               c == [i \in 1..Len(decks) |-> [j \in 1..Len(decks) |-> ShortIdCompare(decks[i], decks[j])]]
           IN {Permute(decks, p) : p \in SortOrdersOfTable(c)}
           : files \in {q \in [1..Cardinality(JsonFiles) -> JsonFiles] :
                            \A i, j \in 1..Cardinality(JsonFiles) : i # j => q[i] # q[j]}}

\* the shortId a deck file has from an earlier run, as an optional field
OldShortId == <<7>>

\* Short-ID scenarios: uploadedAt varies freely; the second file carries a shortId already
InitShortIds ==
    /\ NoLoader
    /\ \E n \in 0..MaxShortIdDecks :
         \E dates \in [1..n -> DateChoices] :
           decksDir = [f \in {JsonFile(Stems[i]) : i \in 1..n} \cup {ReadmeFile} |->
                          IF f = ReadmeFile THEN [text |-> "deck files"]
                          ELSE LET i == CHOOSE k \in 1..n : JsonFile(Stems[k]) = f
                               IN WithOptional(WithOptional(WithOptional(BaseDeck(Stems[i]), "slug", <<Stems[i]>>),
                                                            "uploadedAt", dates[i]),
                                               "shortId", IF i = 2 THEN OldShortId ELSE <<>>)]
    /\ proc = [script |-> "assign-short-ids", pc |-> "load"]

\* lines 13-31: read the directory, load the files, sort
ShortIdsLoad ==
    /\ proc.script = "assign-short-ids"
    /\ proc.pc = "load"
    /\ \E decks \in SortedDeckFiles :
         proc' = [script |-> "assign-short-ids", pc |-> "assign", decks |-> decks, i |-> 0]
    /\ UNCHANGED <<deckModules, legacyStatsModule, call, result, sortImpl, decksDir>>

\* lines 36-48: one iteration of the loop
ShortIdsAssign ==
    /\ proc.script = "assign-short-ids"
    /\ proc.pc = "assign"
    /\ proc.i < Len(proc.decks)
    /\ LET deck == proc.decks[proc.i + 1]
           data == ("shortId" :> (proc.i + 1)) @@ deck.data
       IN /\ decksDir' = [decksDir EXCEPT ![deck.filename] = data]
          /\ proc' = [proc EXCEPT !.i = @ + 1, !.decks[proc.i + 1].data = data]
    /\ UNCHANGED <<deckModules, legacyStatsModule, call, result, sortImpl>>

\* line 50: the loop is over
ShortIdsDone ==
    /\ proc.script = "assign-short-ids"
    /\ proc.pc = "assign"
    /\ proc.i = Len(proc.decks)
    /\ proc' = [proc EXCEPT !.pc = "done"]
    /\ UNCHANGED <<deckModules, legacyStatsModule, call, result, sortImpl, decksDir>>

NextShortIds == ShortIdsLoad \/ ShortIdsAssign \/ ShortIdsDone

SpecShortIds == InitShortIds /\ [][NextShortIds]_vars

---------------------------------------------------------------------------
(* scripts/add-category-field.mjs *)

\* at most this many deck files in the category scenarios
MaxCategoryDecks == 3

\* DeckCategory
DeckCategories == {"Organic", "MS Official", "Conference"}

\* the orders in which readdirSync may list the deck files
DirectoryListings ==
    {q \in [1..Cardinality(JsonFiles) -> JsonFiles] :
        \A i, j \in 1..Cardinality(JsonFiles) : i # j => q[i] # q[j]}

\* mutant: only the default category counts as set
CategoryIsDefault(deck) == Has(deck, "category") /\ deck.category = "Organic"

\* if (deck.category): the field is there and not the empty string
CategoryIsSet(deck) == Has(deck, "category") /\ deck.category # ""

\* deck.category = 'Organic'
WithDefaultCategory(deck) == ("category" :> "Organic") @@ deck

\* the state at the start of the loop, line 20; earlier is what the run before this one updated
CategoryStart(files, run, earlier) ==
    [script |-> "add-category-field", run |-> run, files |-> files, k |-> 0,
     updated |-> 0, skipped |-> 0, written |-> {}, earlier |-> earlier]

\* Category scenarios: every deck file has one of the categories or none
InitCategory ==
    /\ NoLoader
    /\ \E n \in 0..MaxCategoryDecks :
         \E cats \in [1..n -> {<<>>} \cup {<<c>> : c \in DeckCategories}] :
           decksDir = [f \in {JsonFile(Stems[i]) : i \in 1..n} \cup {ReadmeFile} |->
                          IF f = ReadmeFile THEN [text |-> "deck files"]
                          ELSE LET i == CHOOSE k \in 1..n : JsonFile(Stems[k]) = f
                               IN WithOptional(WithOptional(BaseDeck(Stems[i]), "slug", <<Stems[i]>>),
                                               "category", cats[i])]
    /\ \E files \in DirectoryListings : proc = CategoryStart(files, 1, {})

\* lines 20-39: one iteration of the loop; written records the files passed to writeFileSync
CategoryFile ==
    /\ proc.script = "add-category-field"
    /\ proc.k < Len(proc.files)
    /\ LET file == proc.files[proc.k + 1]
           deck == decksDir[file]
       IN IF CategoryIsSet(deck)
          THEN /\ proc' = [proc EXCEPT !.k = @ + 1, !.skipped = @ + 1]
               /\ UNCHANGED decksDir
          ELSE /\ decksDir' = [decksDir EXCEPT ![file] = WithDefaultCategory(deck)]
               /\ proc' = [proc EXCEPT !.k = @ + 1, !.updated = @ + 1, !.written = @ \cup {file}]
    /\ UNCHANGED <<deckModules, legacyStatsModule, call, result, sortImpl>>

\* the script is run a second time
CategoryAgain ==
    /\ proc.script = "add-category-field"
    /\ proc.run = 1
    /\ proc.k = Len(proc.files)
    /\ \E files \in DirectoryListings : proc' = CategoryStart(files, 2, proc.written)
    /\ UNCHANGED <<deckModules, legacyStatsModule, call, result, sortImpl, decksDir>>

NextCategory == CategoryFile \/ CategoryAgain

SpecCategory == InitCategory /\ [][NextCategory]_vars

---------------------------------------------------------------------------
(* scripts/import-slideshare-uploadedAt.mjs                                  *)
(* A string of the CSV is a sequence of tokens: a token is a run of          *)
(* characters without whitespace, or one whitespace character.  The CSV      *)
(* files of the model have no quoted fields, so the file is its rows of      *)
(* fields as they stand between the commas.                                   *)

\* at most this many data rows in the CSV
MaxCsvRows == 2
\* at most this many deck files in the uploadedAt scenarios
MaxUploadDecks == 2

IsWhitespace(tok) == tok \in {" ", "\t"}

\* String.prototype.trim
RECURSIVE Trim(_)
Trim(s) ==
    IF s = <<>> THEN <<>>
    ELSE IF IsWhitespace(Head(s)) THEN Trim(Tail(s))
    ELSE IF IsWhitespace(s[Len(s)]) THEN Trim(SubSeq(s, 1, Len(s) - 1))
    ELSE s

\* parseCSV on a file without quotes: every field trimmed, rows whose fields
\* are all empty dropped
parseCSV(content) ==
    SelectSeq([r \in 1..Len(content) |-> [c \in 1..Len(content[r]) |-> Trim(content[r][c])]],
              LAMBDA row : \E c \in 1..Len(row) : row[c] # <<>>)

\* the tokens that are \d{4}-\d{2}-\d{2} and \d{2}:\d{2}:\d{2}
IsDatePart(tok) == tok \in {"2010-10-12", "2011-03-04"}

IsTimePart(tok) == tok \in {"13:16:21", "05:06:07"}

\* mutant: the zone is required, /^(date)\s+(time)\s*UTC$/
toISOStrict(dateStr) ==
    LET body == {i \in 2..Len(dateStr) : ~IsWhitespace(dateStr[i])}
        first == CHOOSE i \in body : \A j \in body : i <= j
    IN IF dateStr = <<>> \/ body = {} \/ ~IsDatePart(dateStr[1]) THEN <<>>
       ELSE IF first > 2 /\ IsTimePart(dateStr[first]) /\ body = {first, Len(dateStr)}
               /\ first < Len(dateStr) /\ dateStr[Len(dateStr)] = "UTC"
            THEN <<dateStr[1], "T", dateStr[first], "Z">>
            ELSE <<>>

\* toISO: /^(\d{4}-\d{2}-\d{2})\s+(\d{2}:\d{2}:\d{2})\s*(?:UTC)?$/ and the
\* template `${datePart}T${timePart}Z`; <<>> for null
toISO(dateStr) ==
    LET body == {i \in 2..Len(dateStr) : ~IsWhitespace(dateStr[i])}
        first == CHOOSE i \in body : \A j \in body : i <= j
    IN IF dateStr = <<>> \/ body = {} \/ ~IsDatePart(dateStr[1]) THEN <<>>
       ELSE IF first > 2 /\ IsTimePart(dateStr[first])
               /\ \/ body = {first}
                  \/ body = {first, Len(dateStr)} /\ first < Len(dateStr) /\ dateStr[Len(dateStr)] = "UTC"
            THEN <<dateStr[1], "T", dateStr[first], "Z">>
            ELSE <<>>

\* h.toLowerCase() of a header
HeaderToLowerCase(h) ==
    [i \in 1..Len(h) |-> CASE h[i] = "Document_URL" -> "document_url"
                           [] h[i] = "Date_Uploaded" -> "date_uploaded"
                           [] OTHER -> h[i]]

\* headers.indexOf(name): 0 stands for -1
IndexOf(headers, name) ==
    LET hits == {i \in 1..Len(headers) : headers[i] = name}
    IN IF hits = {} THEN 0 ELSE CHOOSE i \in hits : \A j \in hits : i <= j

\* row[index], <<>> for undefined
Cell(row, index) == IF index \in 1..Len(row) THEN row[index] ELSE <<>>

\* the loop of buildUrlToDateMap over the rows from i on: map.set overwrites
RECURSIVE SetUrlDates(_, _, _, _, _)
SetUrlDates(map, csvRows, i, urlIndex, dateIndex) ==
    IF i > Len(csvRows) THEN map
    ELSE LET url == Cell(csvRows[i], urlIndex)
             dateStr == Cell(csvRows[i], dateIndex)
             isoDate == toISO(dateStr)
         IN SetUrlDates(IF url # <<>> /\ dateStr # <<>> /\ isoDate # <<>>
                        THEN [u \in DOMAIN map \cup {url} |-> IF u = url THEN isoDate ELSE map[u]]
                        ELSE map,
                        csvRows, i + 1, urlIndex, dateIndex)

EmptyMap == [u \in {} |-> <<>>]

buildUrlToDateMap(csvRows) ==
    IF Len(csvRows) < 2 THEN EmptyMap
    ELSE LET headers == [i \in 1..Len(csvRows[1]) |-> Trim(HeaderToLowerCase(csvRows[1][i]))]
             urlIndex == IndexOf(headers, <<"document_url">>)
             dateIndex == IndexOf(headers, <<"date_uploaded">>)
         IN IF urlIndex = 0 \/ dateIndex = 0 THEN EmptyMap
            ELSE SetUrlDates(EmptyMap, csvRows, 2, urlIndex, dateIndex)

\* a file whose content JSON.parse rejects
Unparseable == [unparseable |-> TRUE]

\* obj?.slideshareUrl, <<>> for undefined
SlideshareUrlOf(deck, field) ==
    IF Has(deck, field) /\ Has(deck[field], "slideshareUrl") THEN deck[field].slideshareUrl ELSE <<>>

\* deck.source?.slideshareUrl || deck.legacy?.slideshareUrl, <<>> when falsy
SlideshareUrl(deck) ==
    IF SlideshareUrlOf(deck, "source") # <<>> THEN SlideshareUrlOf(deck, "source") ELSE SlideshareUrlOf(deck, "legacy")

UrlA == <<"https://www.slideshare.net/jukkan/a">>

UrlB == <<"https://www.slideshare.net/jukkan/b">>

\* header rows: as exported; capitalised and padded; without a document_url column
HeaderChoices ==
    {<<<<"document_url">>, <<"date_uploaded">>>>,
     <<<<" ", "Document_URL">>, <<"Date_Uploaded", " ">>>>,
     <<<<"url">>, <<"date_uploaded">>>>}

\* data rows: the exported format; no zone; not a date; padded, two spaces
\* and a second URL; no URL
RowChoices ==
    {<<UrlA, <<"2010-10-12", " ", "13:16:21", " ", "UTC">>>>,
     <<UrlA, <<"2011-03-04", " ", "05:06:07">>>>,
     <<UrlA, <<"12.10.2010">>>>,
     <<<<" ">> \o UrlB, <<"2011-03-04", " ", " ", "13:16:21", " ", "UTC", " ">>>>,
     <<<<>>, <<"2010-10-12", " ", "13:16:21", " ", "UTC">>>>}

\* deck files: source URL and an uploadedAt already; empty source URL and
\* legacy URL; no URL; no JSON
UploadDeckChoices(stem) ==
    {("uploadedAt" :> <<"2020-01-01", "T", "00:00:00", "Z">>) @@ ("source" :> [slideshareUrl |-> UrlA]) @@ BaseDeck(stem),
     ("source" :> [slideshareUrl |-> <<>>]) @@ ("legacy" :> [slideshareUrl |-> UrlB]) @@ BaseDeck(stem),
     BaseDeck(stem),
     Unparseable}

\* the state at the start of the loop, line 158: todo holds the deck files the
\* loop has not visited yet (it visits them in the order readdirSync gave)
InitUploadedAt ==
    /\ NoLoader
    /\ \E n \in 0..MaxUploadDecks :
         \E decks \in [1..n -> UNION {UploadDeckChoices(Stems[i]) : i \in 1..n}] :
           /\ \A i \in 1..n : decks[i] \in UploadDeckChoices(Stems[i])
           /\ decksDir = [f \in {JsonFile(Stems[i]) : i \in 1..n} \cup {ReadmeFile} |->
                             IF f = ReadmeFile THEN [text |-> "deck files"]
                             ELSE decks[CHOOSE k \in 1..n : JsonFile(Stems[k]) = f]]
    /\ \E header \in HeaderChoices :
         \E m \in 0..MaxCsvRows :
           \E rows \in [1..m -> RowChoices] :
             proc = [script |-> "import-uploadedAt",
                     csvContent |-> <<header>> \o rows,
                     urlToDate |-> buildUrlToDateMap(parseCSV(<<header>> \o rows)),
                     todo |-> JsonFiles,
                     updatedCount |-> 0, missingUrlCount |-> 0, missingCsvMatchCount |-> 0,
                     written |-> {}]

\* lines 158-191: one iteration of the loop; written records the files passed to writeFileSync
UploadedAtFile(filename) ==
    /\ proc.script = "import-uploadedAt"
    /\ filename \in proc.todo
    /\ LET deck == decksDir[filename]
           slideshareUrl == SlideshareUrl(deck)
       IN IF deck = Unparseable
          THEN /\ proc' = [proc EXCEPT !.todo = @ \ {filename}]
               /\ UNCHANGED decksDir
          ELSE IF slideshareUrl = <<>>
          THEN /\ proc' = [proc EXCEPT !.todo = @ \ {filename}, !.missingUrlCount = @ + 1]
               /\ UNCHANGED decksDir
          ELSE IF slideshareUrl \notin DOMAIN proc.urlToDate
          THEN /\ proc' = [proc EXCEPT !.todo = @ \ {filename}, !.missingCsvMatchCount = @ + 1]
               /\ UNCHANGED decksDir
          ELSE /\ decksDir' = [decksDir EXCEPT ![filename] = ("uploadedAt" :> proc.urlToDate[slideshareUrl]) @@ deck]
               /\ proc' = [proc EXCEPT !.todo = @ \ {filename}, !.updatedCount = @ + 1,
                                       !.written = @ \cup {filename}]
    /\ UNCHANGED <<deckModules, legacyStatsModule, call, result, sortImpl>>

NextUploadedAt == \E filename \in {JsonFile(Stems[i]) : i \in 1..Len(Stems)} : UploadedAtFile(filename)

SpecUploadedAt == InitUploadedAt /\ [][NextUploadedAt]_vars

---------------------------------------------------------------------------
(* prepare-assets (src/unnamed/part_001): every directory of public/decks  *)
(* gets a deck.pdf, converted from deck.pptx, and a cover.webp, made from  *)
(* page 1 of deck.pdf.  Here decksDir is public/decks, name -> entry, and  *)
(* an entry is a plain file or a directory with the set of its files.      *)
(* soffice, pdftoppm and cwebp are programs outside the script: their exit *)
(* status and the files they leave are any of the outcomes they can have.  *)
(* proc.log holds the two console lines that announce a tool run.          *)

MaxAssetDecks == 2

DeckDir(files) == [isDirectory |-> TRUE, files |-> files]

\* the names `ls <dir>/*.pdf` can list
IsPdfName(f) == f \in {"deck.pdf", "slides.pdf"}

\* /^cover(-\d+)?\.png$/i
IsCoverPng(f) == f \in {"cover.png", "cover-1.png"}

\* runCommand('soffice', ...): exit status 0 or not, and the PDF files it wrote
SofficeOutcomes == [success : BOOLEAN, written : SUBSET {"deck.pdf", "slides.pdf"}]

\* files: the deck directory before the call; gives the directory after it and the value returned.
\* The first check of both branches: soffice succeeded and deck.pdf exists
convertPptxToPdf(files, isWindows, soffice) ==
    LET after == files \cup soffice.written
    IN [files   |-> after,
        success |-> \/ soffice.success /\ "deck.pdf" \in after
                    \/ isWindows /\ \E f \in after : IsPdfName(f)]

\* both pdftoppm runs together: the second runs when the first fails, and
\* the step succeeds when either does; pdftoppm reads deck.pdf
PdftoppmOutcomes(files) ==
    {[success |-> FALSE, written |-> {}]}
    \cup (IF "deck.pdf" \in files
          THEN {[success |-> TRUE, written |-> w] : w \in SUBSET {"cover.png", "cover-1.png"}}
          ELSE {})

\* runCommand('cwebp', ...)
CwebpOutcomes == [success : BOOLEAN, written : SUBSET {"cover.webp"}]

cleanupPngFiles(files) == {f \in files : ~IsCoverPng(f)}

generateCover(files, ppm, cwebp) ==
    LET afterPpm == files \cup ppm.written
        afterCwebp == afterPpm \cup cwebp.written
    IN IF ~ppm.success
       THEN [files |-> afterPpm, success |-> FALSE]
       ELSE IF {f \in afterPpm : IsCoverPng(f)} = {}
       THEN [files |-> afterPpm, success |-> FALSE]
       ELSE IF ~cwebp.success
       THEN [files |-> cleanupPngFiles(afterCwebp), success |-> FALSE]
       ELSE [files |-> cleanupPngFiles(afterCwebp), success |-> "cover.webp" \in afterCwebp]

\* the condition of the cover step, `!hasCover && pdfReady`
CoverWithoutPdf(hasCover, pdfReady) == ~hasCover

CoverIsDue(hasCover, pdfReady) == ~hasCover /\ pdfReady

InitAssets ==
    /\ NoLoader
    /\ \E n \in 0..MaxAssetDecks :
         decksDir \in [{Stems[i] : i \in 1..n} ->
                         {[isDirectory |-> FALSE, files |-> {}]}
                         \cup {DeckDir(files) : files \in SUBSET {"deck.pdf", "deck.pptx", "cover.webp"}}]
    /\ \E isWindows \in BOOLEAN, toolsMissing \in BOOLEAN, decksDirExists \in BOOLEAN :
         /\ ~decksDirExists => decksDir = <<>>
         /\ proc = [script |-> "prepare-assets", pc |-> "main",
                    isWindows |-> isWindows, toolsMissing |-> toolsMissing,
                    decksDirExists |-> decksDirExists,
                    deckDirs |-> <<>>, done |-> 0,
                    hasPdf |-> FALSE, hasPptx |-> FALSE, hasCover |-> FALSE, pdfReady |-> FALSE,
                    results |-> [pdfConverted |-> <<>>, pdfFailed |-> <<>>, coverGenerated |-> <<>>,
                                 coverFailed |-> <<>>, skipped |-> <<>>],
                    log |-> <<>>]

Slug == proc.deckDirs[proc.done + 1]

\* main stops before the loop: a tool is missing, or there is no public/decks
MainExits ==
    /\ proc.script = "prepare-assets" /\ proc.pc = "main"
    /\ proc.toolsMissing \/ ~proc.decksDirExists
    /\ proc' = [proc EXCEPT !.pc = "exit"]
    /\ UNCHANGED <<deckModules, legacyStatsModule, call, result, sortImpl, decksDir>>

\* entries.filter(e => e.isDirectory()).map(e => e.name).sort(): the names
\* are single lower-case letters, which sort() puts in the order of Stems
MainListsDecks ==
    /\ proc.script = "prepare-assets" /\ proc.pc = "main"
    /\ ~proc.toolsMissing /\ proc.decksDirExists
    /\ proc' = [proc EXCEPT !.pc = "processDeck", !.deckDirs = SelectSeq(Stems, LAMBDA name : name \in DOMAIN decksDir /\ decksDir[name].isDirectory)]
    /\ UNCHANGED <<deckModules, legacyStatsModule, call, result, sortImpl, decksDir>>

\* processDeck, lines 283-290: the three existsSync probes
ProcessDeckProbe ==
    /\ proc.script = "prepare-assets" /\ proc.pc = "processDeck"
    /\ proc.done < Len(proc.deckDirs)
    /\ LET files == decksDir[Slug].files
       IN proc' = [proc EXCEPT !.pc = "convert",
                               !.hasPdf = "deck.pdf" \in files,
                               !.hasPptx = "deck.pptx" \in files,
                               !.hasCover = "cover.webp" \in files,
                               !.pdfReady = "deck.pdf" \in files]
    /\ UNCHANGED <<deckModules, legacyStatsModule, call, result, sortImpl, decksDir>>

\* processDeck, lines 292-303: step 1, with the call of convertPptxToPdf
ProcessDeckConvert ==
    /\ proc.script = "prepare-assets" /\ proc.pc = "convert"
    /\ IF ~proc.hasPdf /\ proc.hasPptx
       THEN \E soffice \in SofficeOutcomes :
              LET r == convertPptxToPdf(decksDir[Slug].files, proc.isWindows, soffice)
              IN /\ decksDir' = [decksDir EXCEPT ![Slug] = DeckDir(r.files)]
                 /\ proc' = [proc EXCEPT
                        !.pc = "cover",
                        !.log = Append(@, [slug |-> Slug, line |-> "Converting deck.pptx to deck.pdf..."]),
                        !.pdfReady = IF r.success THEN TRUE ELSE @,
                        !.results.pdfConverted = IF r.success THEN Append(@, Slug) ELSE @,
                        !.results.pdfFailed = IF r.success THEN @ ELSE Append(@, Slug)]
       ELSE /\ proc' = [proc EXCEPT !.pc = "cover"]
            /\ UNCHANGED decksDir
    /\ UNCHANGED <<deckModules, legacyStatsModule, call, result, sortImpl>>

\* convertPptxToPdf, line 128: on Windows, when the first check fails, the
\* listing is an execSync, which throws if the shell that runs the line
\* reports a failure; nothing catches it before main().catch, which exits
ProcessDeckConvertThrows ==
    /\ proc.script = "prepare-assets" /\ proc.pc = "convert"
    /\ ~proc.hasPdf /\ proc.hasPptx
    /\ proc.isWindows
    /\ \E soffice \in SofficeOutcomes :
         /\ ~(soffice.success /\ "deck.pdf" \in (decksDir[Slug].files \cup soffice.written))
         /\ decksDir' = [decksDir EXCEPT ![Slug] = DeckDir(@.files \cup soffice.written)]
         /\ proc' = [proc EXCEPT
                !.pc = "fatal",
                !.log = Append(@, [slug |-> Slug, line |-> "Converting deck.pptx to deck.pdf..."])]
    /\ UNCHANGED <<deckModules, legacyStatsModule, call, result, sortImpl>>

\* processDeck, lines 305-318: step 2, with the call of generateCover
ProcessDeckCover ==
    /\ proc.script = "prepare-assets" /\ proc.pc = "cover"
    /\ IF CoverIsDue(proc.hasCover, proc.pdfReady)
       THEN \E ppm \in PdftoppmOutcomes(decksDir[Slug].files), cwebp \in CwebpOutcomes :
              LET r == generateCover(decksDir[Slug].files, ppm, cwebp)
              IN /\ decksDir' = [decksDir EXCEPT ![Slug] = DeckDir(r.files)]
                 /\ proc' = [proc EXCEPT
                        !.pc = "processDeck", !.done = @ + 1,
                        !.log = Append(@, [slug |-> Slug, line |-> "Generating cover.webp from deck.pdf..."]),
                        !.results.coverGenerated = IF r.success THEN Append(@, Slug) ELSE @,
                        !.results.coverFailed = IF r.success THEN @ ELSE Append(@, Slug)]
       ELSE IF ~proc.hasCover /\ ~proc.pdfReady
       THEN /\ proc' = [proc EXCEPT !.pc = "processDeck", !.done = @ + 1,
                                    !.results.skipped = Append(@, Slug)]
            /\ UNCHANGED decksDir
       ELSE /\ proc' = [proc EXCEPT !.pc = "processDeck", !.done = @ + 1]
            /\ UNCHANGED decksDir
    /\ UNCHANGED <<deckModules, legacyStatsModule, call, result, sortImpl>>

\* main, line 433: the loop is over
MainPrintsSummary ==
    /\ proc.script = "prepare-assets" /\ proc.pc = "processDeck"
    /\ proc.done = Len(proc.deckDirs)
    /\ proc' = [proc EXCEPT !.pc = "done"]
    /\ UNCHANGED <<deckModules, legacyStatsModule, call, result, sortImpl, decksDir>>

NextAssets ==
    \/ MainExits
    \/ MainListsDecks
    \/ ProcessDeckProbe
    \/ ProcessDeckConvert
    \/ ProcessDeckConvertThrows
    \/ ProcessDeckCover
    \/ MainPrintsSummary

SpecAssets == InitAssets /\ [][NextAssets]_vars

---------------------------------------------------------------------------
(* Vocabulary of the properties *)

IsGetAllDecks == call.op = "getAllDecks"

\* a returned record without what the loader may have attached
Strip(d) == [f \in DOMAIN d \ {"legacyStats"} |-> d[f]]

\* p traces the returned records to the input records: result[i] comes from
\* the p[i]-th deck file
Traces(p) ==
    /\ Len(result) = Len(deckModules)
    /\ \A i \in 1..Len(result) : Strip(result[i]) = deckModules[p[i]].deck

InputOrderings == Orderings(1..Len(deckModules))

Dated(d) == Has(d, "uploadedAt")

\* s >= t, compared as timestamps (false when either is not a timestamp)
TimestampGeq(s, t) ==
    /\ ~DateGetTime(s).nan
    /\ ~DateGetTime(t).nan
    /\ DateGetTime(s).val >= DateGetTime(t).val

\* two records the sort must not reorder: both undated, or the same instant
EqualSortKeys(a, b) ==
    \/ ~Dated(a) /\ ~Dated(b)
    \/ Dated(a) /\ Dated(b) /\ TimestampGeq(a.uploadedAt, b.uploadedAt)
                            /\ TimestampGeq(b.uploadedAt, a.uploadedAt)

\* every uploadedAt among the deck files parses as a timestamp
AllTimestampsParse ==
    \A i \in 1..Len(deckModules) :
        Dated(deckModules[i].deck) => ~DateGetTime(deckModules[i].deck.uploadedAt).nan

---------------------------------------------------------------------------
(* C1: getAllDecks returns as many records as there are deck files, and     *)
(* each input record appears in the result exactly once (possibly enriched  *)
(* with legacyStats): nothing is dropped, duplicated or added.              *)
C1_EveryRecordExactlyOnce ==
    IsGetAllDecks =>
        /\ Len(result) = Len(deckModules)
        /\ \E p \in InputOrderings : Traces(p)

\* three or more records came back, reordered, one of them enriched
C1_Witness ==
    /\ IsGetAllDecks
    /\ Len(result) >= 3
    /\ Strip(result[1]) # deckModules[1].deck
    /\ \E i \in 1..Len(result) : Has(result[i], "legacyStats")

(* C2: in the result of getAllDecks, of two records that both have          *)
(* uploadedAt the earlier one in the sequence has the later-or-equal        *)
(* timestamp (newest first).                                                *)
C2_DatedNewestFirst ==
    IsGetAllDecks =>
        \A i, j \in 1..Len(result) :
            (i < j /\ Dated(result[i]) /\ Dated(result[j]))
                => TimestampGeq(result[i].uploadedAt, result[j].uploadedAt)

\* C2 restricted to inputs whose timestamps all parse (supporting check)
C2_WhenAllTimestampsParse == AllTimestampsParse => C2_DatedNewestFirst

(* C3: in the result of getAllDecks every record without uploadedAt comes   *)
(* after every record with uploadedAt, and the records without uploadedAt   *)
(* keep the relative order of the input.                                    *)
C3_UndatedLastInInputOrder ==
    IsGetAllDecks =>
        \E p \in InputOrderings :
            /\ Traces(p)
            /\ \A i, j \in 1..Len(result) :
                 (i < j /\ ~Dated(result[i])) => (~Dated(result[j]) /\ p[i] < p[j])

\* C3 restricted to inputs whose timestamps all parse (supporting check)
C3_WhenAllTimestampsParse == AllTimestampsParse => C3_UndatedLastInInputOrder

(* C4: the sort of getAllDecks is stable: two records with equal sort keys  *)
(* (the same instant, or both undated) keep the relative order of the input.*)
C4_StableSort ==
    IsGetAllDecks =>
        \E p \in InputOrderings :
            /\ Traces(p)
            /\ \A i, j \in 1..Len(result) :
                 (i < j /\ EqualSortKeys(result[i], result[j])) => p[i] < p[j]

\* C4 restricted to inputs whose timestamps all parse (supporting check)
C4_WhenAllTimestampsParse == AllTimestampsParse => C4_StableSort

---------------------------------------------------------------------------
(* Properties of the merge, checked under SpecMerge *)

\* the filename stem of a deck file, read off its path
FilenameStem(path) == path[Len(path) - 1]

\* the look-up key the documentation gives a deck file: its own slug when
\* present and non-empty, else the filename stem
ClaimedKey(e) ==
    IF Has(e.deck, "slug") /\ e.deck.slug # "" THEN e.deck.slug ELSE FilenameStem(e.path)

\* the table's single shared _meta.capturedAt (undefined when there is none)
SharedCapturedAt ==
    IF /\ "_meta" \in DOMAIN legacyStatsData
       /\ legacyStatsData["_meta"].kind = "object"
       /\ "capturedAt" \in DOMAIN legacyStatsData["_meta"].fields
    THEN legacyStatsData["_meta"].fields["capturedAt"]
    ELSE JUndef

\* the value has a views field that is a number
HasNumericViews(v) ==
    /\ v.kind = "object"
    /\ "views" \in DOMAIN v.fields
    /\ v.fields["views"].kind = "number"

\* the value has a views field, of whatever type
HasViews(v) == v.kind = "object" /\ "views" \in DOMAIN v.fields

(* C5: a record whose look-up key has no entry in the legacy-stats table    *)
(* comes back unmodified: no legacyStats field, every other field as in the *)
(* deck file.                                                               *)
C5_UnmatchedUnmodified ==
    IsGetAllDecks =>
        \E p \in InputOrderings :
            /\ Traces(p)
            /\ \A i \in 1..Len(result) :
                 ClaimedKey(deckModules[p[i]]) \notin DOMAIN legacyStatsData
                    => /\ ~Has(result[i], "legacyStats")
                       /\ result[i] = deckModules[p[i]].deck

\* a record without a table entry came back next to one that was enriched
C5_Witness ==
    /\ IsGetAllDecks
    /\ \E i \in 1..Len(deckModules) : ClaimedKey(deckModules[i]) \notin DOMAIN legacyStatsData
    /\ \E i, j \in 1..Len(result) : Has(result[i], "legacyStats") /\ ~Has(result[j], "legacyStats")

(* C6: every returned record that carries legacyStats has                   *)
(* legacyStats.capturedAt equal to the table's shared _meta.capturedAt,     *)
(* never the matched entry's own, and likes, views and downloads as in the  *)
(* entry matched by the record's key.                                       *)
C6_CapturedAtIsShared ==
    IsGetAllDecks =>
        \E p \in InputOrderings :
            /\ Traces(p)
            /\ \A i \in 1..Len(result) :
                 Has(result[i], "legacyStats") =>
                    /\ ClaimedKey(deckModules[p[i]]) \in DOMAIN legacyStatsData
                    /\ legacyStatsData[ClaimedKey(deckModules[p[i]])].kind = "object"
                    /\ Has(result[i].legacyStats, "capturedAt")
                    /\ result[i].legacyStats["capturedAt"] = SharedCapturedAt
                    /\ \A f \in {"likes", "views", "downloads"} :
                         LET entry == legacyStatsData[ClaimedKey(deckModules[p[i]])].fields
                         IN /\ Has(result[i].legacyStats, f) <=> Has(entry, f)
                            /\ Has(entry, f) => result[i].legacyStats[f] = entry[f]

\* an entry with a capturedAt of its own was merged, and the shared one differs
C6_Witness ==
    /\ IsGetAllDecks
    /\ SharedCapturedAt = CapturedAt
    /\ \E i \in 1..Len(result) :
         /\ Has(result[i], "legacyStats")
         /\ Has(result[i].legacyStats, "privacy")
         /\ result[i].legacyStats["views"] = JNum(50)

(* C7: getAllDecks attaches legacyStats to a record if and only if the      *)
(* record's key is in the table and the matched value has a numeric views   *)
(* field.                                                                   *)
C7_AttachedIffNumericViews ==
    IsGetAllDecks =>
        \E p \in InputOrderings :
            /\ Traces(p)
            /\ \A i \in 1..Len(result) :
                 Has(result[i], "legacyStats")
                    <=> HasNumericViews(Lookup(legacyStatsData, ClaimedKey(deckModules[p[i]])))

\* what the code does instead: any views field will do (supporting check)
C7_AttachedIffViewsPresent ==
    IsGetAllDecks =>
        \E p \in InputOrderings :
            /\ Traces(p)
            /\ \A i \in 1..Len(result) :
                 Has(result[i], "legacyStats")
                    <=> HasViews(Lookup(legacyStatsData, ClaimedKey(deckModules[p[i]])))

(* C8: the key used to look up the legacy stats of a record is its own slug *)
(* when present and non-empty, else the filename stem of its path; the slug *)
(* wins even when the stem differs and has an entry of its own.             *)
C8_KeyIsSlugElseStem ==
    IsGetAllDecks =>
        \E p \in InputOrderings :
            /\ Traces(p)
            /\ \A i \in 1..Len(result) :
                 result[i] = Enrich(deckModules[p[i]].deck, ClaimedKey(deckModules[p[i]]))

\* a deck file whose stem has stats but whose slug is another key came back
\* without the stem's stats, and a file without slug got those of its stem
C8_Witness ==
    /\ IsGetAllDecks
    /\ \E i \in 1..Len(deckModules) :
         /\ FilenameStem(deckModules[i].path) = "a"
         /\ Has(deckModules[i].deck, "slug")
         /\ deckModules[i].deck.slug = "zz"
         /\ HasViews(Lookup(legacyStatsData, "a"))
         /\ \E k \in 1..Len(result) : Strip(result[k]) = deckModules[i].deck /\ ~Has(result[k], "legacyStats")
    /\ \E i \in 1..Len(deckModules) :
         /\ FilenameStem(deckModules[i].path) = "b"
         /\ Has(deckModules[i].deck, "slug")
         /\ deckModules[i].deck.slug = ""
         /\ \E k \in 1..Len(result) : Strip(result[k]) = deckModules[i].deck /\ Has(result[k], "legacyStats")

---------------------------------------------------------------------------
(* Properties of the lookups, checked under SpecLookup *)

\* the deck files whose slug is s
FilesWithSlug(s) == {i \in 1..Len(deckModules) : Has(deckModules[i].deck, "slug") /\ deckModules[i].deck.slug = s}

\* the deck files whose shortId is n
FilesWithShortId(n) ==
    {i \in 1..Len(deckModules) : Has(deckModules[i].deck, "shortId") /\ deckModules[i].deck.shortId = n}

\* no two deck files carry the same slug
UniqueSlugs ==
    \A i, j \in 1..Len(deckModules) :
        (i # j /\ Has(deckModules[i].deck, "slug")) => j \notin FilesWithSlug(deckModules[i].deck.slug)

(* C9: in a catalog with unique slugs getDeckBySlug(s) returns the one      *)
(* record whose slug is exactly s, with its merged legacyStats, and         *)
(* undefined when no record has slug s.                                     *)
C9_FindBySlug ==
    (call.op = "getDeckBySlug" /\ UniqueSlugs) =>
        /\ FilesWithSlug(call.slug) = {} => result = <<>>
        /\ \A i \in FilesWithSlug(call.slug) :
             result = <<Enrich(deckModules[i].deck, ClaimedKey(deckModules[i]))>>

\* the record found carries merged stats and is not the first of the catalog
C9_Witness ==
    /\ call.op = "getDeckBySlug"
    /\ UniqueSlugs
    /\ Len(deckModules) >= 2
    /\ result # <<>>
    /\ Has(result[1], "legacyStats")
    /\ \E all \in getAllDecks : all[1] # result[1]

(* C10: getDeckByShortId(n) returns undefined when no record has shortId n, *)
(* never a record without shortId, and a record it returns has shortId n.   *)
C10_FindByShortId ==
    call.op = "getDeckByShortId" =>
        /\ FilesWithShortId(call.shortId) = {} => result = <<>>
        /\ result # <<>> => (Has(result[1], "shortId") /\ result[1].shortId = call.shortId)

\* a record was found although a record without shortId and one with another
\* shortId are in the catalog
C10_Witness ==
    /\ call.op = "getDeckByShortId"
    /\ result # <<>>
    /\ \E i \in 1..Len(deckModules) : ~Has(deckModules[i].deck, "shortId")
    /\ \E i \in 1..Len(deckModules) :
         Has(deckModules[i].deck, "shortId") /\ deckModules[i].deck.shortId # call.shortId

\* no record has the shortId asked for, and undefined came back
C10_AbsentReached ==
    /\ call.op = "getDeckByShortId"
    /\ Len(deckModules) >= 2
    /\ FilesWithShortId(call.shortId) = {}
    /\ result = <<>>

---------------------------------------------------------------------------
(* The tag list *)

\* the tags of all deck files, as a set
TagsOfAllRecords == UNION {{deckModules[i].deck.tags[k] : k \in 1..Len(deckModules[i].deck.tags)} : i \in 1..Len(deckModules)}

\* C11: what getAllTags returns is in strictly ascending lexicographic order
\* (ascending and without duplicates), and its elements are exactly the tags
\* that occur in the tags of some record.
C11_TagsSortedUniqueUnion ==
    call.op = "getAllTags" =>
        /\ \A i, j \in 1..Len(result) : i < j => StringLess(result[i], result[j])
        /\ {result[i] : i \in 1..Len(result)} = TagsOfAllRecords

\* C11 witness: two records share a tag, one record repeats a tag, the records
\* list their tags out of order, and three distinct tags are returned
C11_Witness ==
    /\ call.op = "getAllTags"
    /\ Len(result) = 3
    /\ Len(deckModules) = 2
    /\ deckModules[1].deck.tags = <<"crm", "ai">>
    /\ Len(deckModules[2].deck.tags) = 2
    /\ deckModules[2].deck.tags[1] = deckModules[2].deck.tags[2]
    /\ result = <<"Zoo", "ai", "crm">>

---------------------------------------------------------------------------
(* Purity of the exported functions *)

\* C12: no call changes its inputs (every deck file as loaded and the
\* legacy-stats table stay as they were: no legacyStats field appears on an
\* input record, and the input collection keeps its order); and calling the
\* same function again with the same argument returns an equal result.
C12_InputsKeptResultsRepeat ==
    [][/\ deckModules' = deckModules
       /\ legacyStatsModule' = legacyStatsModule
       /\ (~Idle /\ call' = call) => result' = result]_vars

\* C12 witness: a load has attached legacy stats to a record whose input has
\* none and has reordered the records, over an input with an unparseable
\* timestamp
C12_Witness ==
    /\ IsGetAllDecks
    /\ Len(result) = 3
    /\ \E i \in 1..Len(deckModules) : Has(deckModules[i].deck, "uploadedAt") /\ deckModules[i].deck.uploadedAt = Malformed
    /\ \E i \in 1..Len(result) : Has(result[i], "legacyStats")
    /\ \A i \in 1..Len(deckModules) : ~Has(deckModules[i].deck, "legacyStats")
    /\ Strip(result[1]) # deckModules[1].deck

---------------------------------------------------------------------------
(* Unparseable timestamps *)

\* the deck files whose uploadedAt is set and does not parse
MalformedFiles ==
    {i \in 1..Len(deckModules) : Has(deckModules[i].deck, "uploadedAt")
                                 /\ DateGetTime(deckModules[i].deck.uploadedAt).nan}

\* C13: with a record whose uploadedAt does not parse, the load still returns
\* (it has a return value), and what it returns contains every input record.
C13_MalformedDoesNotCrash ==
    MalformedFiles # {} =>
        /\ getAllDecks # {}
        /\ IsGetAllDecks => \A i \in 1..Len(deckModules) :
                                \E j \in 1..Len(result) : Strip(result[j]) = deckModules[i].deck

\* C13 witness: a load of three files, the middle one with an unparseable
\* uploadedAt, has returned, and the record of that file is in the result
C13_Witness ==
    /\ IsGetAllDecks
    /\ Len(deckModules) = 3
    /\ MalformedFiles = {2}
    /\ \E j \in 1..Len(result) : Strip(result[j]) = deckModules[2].deck

\* C18: when exactly one record has an unparseable uploadedAt, the other
\* records still satisfy the ordering rules among themselves: dated ones
\* newest first, undated ones after the dated ones, equal keys in input order.
C18_OthersStillOrdered ==
    (IsGetAllDecks /\ Cardinality(MalformedFiles) = 1) =>
        \E p \in InputOrderings :
            /\ Traces(p)
            /\ \A i, j \in 1..Len(result) :
                 (i < j /\ p[i] \notin MalformedFiles /\ p[j] \notin MalformedFiles) =>
                    /\ (Dated(result[i]) /\ Dated(result[j]))
                          => TimestampGeq(result[i].uploadedAt, result[j].uploadedAt)
                    /\ ~Dated(result[i]) => ~Dated(result[j])
                    /\ EqualSortKeys(result[i], result[j]) => p[i] < p[j]

---------------------------------------------------------------------------
(* The import script: slugs *)

\* lowercase letters, digits and hyphens only, no hyphen at either end, at
\* most 60 characters
SlugWellFormed(slug) ==
    /\ \A i \in 1..Len(slug) : IsSlugAlnum(slug[i]) \/ slug[i] = "-"
    /\ slug # <<>> => (slug[1] # "-" /\ slug[Len(slug)] # "-")
    /\ Len(slug) <= SlugLimit

\* C14: every slug generateSlug produces is lowercase and hyphenated: only
\* a-z, 0-9 and hyphen, no leading or trailing hyphen, at most 60 characters.
C14_SlugWellFormed ==
    proc.script = "import" => \A k \in 1..Len(proc.slugs) : SlugWellFormed(proc.slugs[k])

\* C14, the part that holds: only a-z, 0-9 and hyphen, and no leading hyphen
C14_SlugAlphabet ==
    proc.script = "import" =>
        \A k \in 1..Len(proc.slugs) :
            /\ \A i \in 1..Len(proc.slugs[k]) : IsSlugAlnum(proc.slugs[k][i]) \/ proc.slugs[k][i] = "-"
            /\ proc.slugs[k] # <<>> /\ proc.slugs[k][1] # "-"

\* C15: the slugs assigned within one import run are pairwise distinct
\* (generateSlug never returns a slug that is already in existingSlugs).
C15_SlugsPairwiseDistinct ==
    proc.script = "import" =>
        \A j, k \in 1..Len(proc.slugs) : j < k => proc.slugs[j] # proc.slugs[k]

---------------------------------------------------------------------------
(* The import script: files *)

\* the output path of the slideshow the loop is about to process
ImportingPath ==
    OutputPath(processSlideshow(proc.slideshows[proc.i + 1], proc.i, proc.existingSlugs).slug)

\* C19: the import never overwrites or removes a deck file.  A slideshow whose
\* output path exists leaves the directory unchanged and is counted as
\* skipped; otherwise exactly one file, at that path, is written and it is
\* counted as created.  created + skipped is the number of slideshows
\* processed, and a second run over the same export creates no file.
C19_ImportNeverOverwrites ==
    /\ [][\A f \in DOMAIN decksDir : f \in DOMAIN decksDir' /\ decksDir'[f] = decksDir[f]]_vars
    /\ [][(proc.script = "import" /\ proc'.i = proc.i + 1) =>
            IF ImportingPath \in DOMAIN decksDir
            THEN /\ decksDir' = decksDir
                 /\ proc'.skipped = proc.skipped + 1
                 /\ proc'.created = proc.created
            ELSE /\ DOMAIN decksDir' = DOMAIN decksDir \cup {ImportingPath}
                 /\ proc'.created = proc.created + 1
                 /\ proc'.skipped = proc.skipped]_vars
    /\ [](proc.script = "import" => proc.created + proc.skipped = proc.i)
    /\ []((proc.script = "import" /\ proc.run = 2) => proc.created = 0)

\* C19 witness: the second run has gone through three slideshows and skipped
\* them all; of the first run's output paths one holds a file that was there
\* before the run, untouched, and one a file the first run created
C19_Witness ==
    /\ proc.script = "import"
    /\ proc.run = 2
    /\ proc.i = 3
    /\ Len(proc.slideshows) = 3
    /\ proc.skipped = 3
    /\ \E k \in 1..Len(proc.slugs) : decksDir[OutputPath(proc.slugs[k])] = OldDeck(proc.slugs[k])
    /\ \E k \in 1..Len(proc.slugs) : decksDir[OutputPath(proc.slugs[k])].title # OldDeck(proc.slugs[k]).title

---------------------------------------------------------------------------
(* The short-ID script *)

ShortIdsFinished == proc.script = "assign-short-ids" /\ proc.pc = "done"

\* the deck files whose uploadedAt is a timestamp
TimedFiles ==
    {f \in JsonFiles : Has(decksDir[f], "uploadedAt") /\ ~DateGetTime(decksDir[f].uploadedAt).nan}

UploadTime(f) == DateGetTime(decksDir[f].uploadedAt).val

\* the shortId values are exactly 1..n, each used once
ShortIdsAreOneToN ==
    /\ \A f \in JsonFiles : Has(decksDir[f], "shortId")
    /\ \A f, g \in JsonFiles : f # g => decksDir[f].shortId # decksDir[g].shortId
    /\ {decksDir[f].shortId : f \in JsonFiles} = 1..Cardinality(JsonFiles)

\* C16: after the script has run over n deck files the shortId values are
\* exactly 1..n, each used once, and they follow uploadedAt ascending: an
\* older deck has the smaller shortId, the oldest deck has shortId 1 and the
\* newest deck has the highest.
C16_ShortIdsFollowUploadDate ==
    ShortIdsFinished =>
        /\ ShortIdsAreOneToN
        /\ \A f, g \in TimedFiles : UploadTime(f) < UploadTime(g) => decksDir[f].shortId < decksDir[g].shortId
        /\ TimedFiles # {} =>
             /\ \E f \in TimedFiles : decksDir[f].shortId = 1 /\ \A g \in TimedFiles : UploadTime(f) <= UploadTime(g)
             /\ \E f \in TimedFiles : decksDir[f].shortId = Cardinality(JsonFiles)
                                      /\ \A g \in TimedFiles : UploadTime(g) <= UploadTime(f)

\* C16, the part that holds: the shortId values are exactly 1..n, each used once
C16_IdsExactlyOnce == ShortIdsFinished => ShortIdsAreOneToN

\* C16, when every deck file has an uploadedAt and all of them parse
C16_WhenAllDatedAndParse ==
    TimedFiles = JsonFiles => C16_ShortIdsFollowUploadDate

\* C16, when every uploadedAt that is there parses: the dated decks are in
\* ascending order and the undated decks have the highest shortIds
C16_WhenAllTimestampsParse ==
    (ShortIdsFinished /\ \A f \in JsonFiles : Has(decksDir[f], "uploadedAt") => f \in TimedFiles) =>
        /\ \A f, g \in TimedFiles : UploadTime(f) < UploadTime(g) => decksDir[f].shortId < decksDir[g].shortId
        /\ \A f \in TimedFiles, g \in JsonFiles \ TimedFiles : decksDir[f].shortId < decksDir[g].shortId

---------------------------------------------------------------------------
(* The category script *)

\* a step of the loop of add-category-field, and the file it is about
CategoryStep == proc.script = "add-category-field" /\ proc'.k = proc.k + 1

CategoryStepFile == proc.files[proc.k + 1]

\* all fields of a deck but category
WithoutCategory(deck) == [f \in DOMAIN deck \ {"category"} |-> deck[f]]

\* C17: a deck that already has a category keeps it and its file is not
\* written; a deck without one gets "Organic" and keeps all its other fields;
\* no other file changes; after the run every deck has a category; and a
\* second run updates no file.
C17_CategoryAddedOnce ==
    /\ [][CategoryStep =>
            /\ \A f \in DOMAIN decksDir \ {CategoryStepFile} : decksDir'[f] = decksDir[f]
            /\ DOMAIN decksDir' = DOMAIN decksDir
            /\ IF Has(decksDir[CategoryStepFile], "category")
               THEN /\ decksDir'[CategoryStepFile] = decksDir[CategoryStepFile]
                    /\ proc'.written = proc.written
                    /\ proc'.updated = proc.updated
               ELSE /\ decksDir'[CategoryStepFile].category = "Organic"
                    /\ WithoutCategory(decksDir'[CategoryStepFile]) = decksDir[CategoryStepFile]
                    /\ proc'.updated = proc.updated + 1]_vars
    /\ []((proc.script = "add-category-field" /\ proc.k = Len(proc.files)) =>
            \A f \in JsonFiles : Has(decksDir[f], "category"))
    /\ []((proc.script = "add-category-field" /\ proc.run = 2) =>
            proc.updated = 0 /\ proc.written = {})

\* C17 witness: the second run is over and has skipped three files; the first
\* run gave one of them "Organic" and left the two others, one of them
\* "Organic" already, with the category they had
C17_Witness ==
    /\ proc.script = "add-category-field"
    /\ proc.run = 2
    /\ proc.k = 3
    /\ Len(proc.files) = 3
    /\ proc.skipped = 3
    /\ proc.earlier = {JsonFile("a")}
    /\ decksDir[JsonFile("a")].category = "Organic"
    /\ decksDir[JsonFile("b")].category = "Conference"
    /\ decksDir[JsonFile("c")].category = "Organic"

---------------------------------------------------------------------------
(* The uploadedAt import script *)

\* the rows of the CSV as parsed, and its columns
CsvRows == parseCSV(proc.csvContent)

CsvHeaders == [i \in 1..Len(CsvRows[1]) |-> Trim(HeaderToLowerCase(CsvRows[1][i]))]

DocumentUrl(r) == Cell(CsvRows[r], IndexOf(CsvHeaders, <<"document_url">>))

DateUploaded(r) == Cell(CsvRows[r], IndexOf(CsvHeaders, <<"date_uploaded">>))

\* 'YYYY-MM-DD HH:MM:SS UTC'
MatchesExportFormat(d) ==
    /\ Len(d) = 5
    /\ IsDatePart(d[1]) /\ d[2] = " " /\ IsTimePart(d[3]) /\ d[4] = " " /\ d[5] = "UTC"

\* 'YYYY-MM-DD', whitespace, 'HH:MM:SS', and then nothing or 'UTC' after optional whitespace
MatchesLenientFormat(d) ==
    \E i \in 3..Len(d) :
        /\ IsDatePart(d[1])
        /\ \A j \in 2..(i - 1) : IsWhitespace(d[j])
        /\ IsTimePart(d[i])
        /\ \/ i = Len(d)
           \/ d[Len(d)] = "UTC" /\ \A j \in (i + 1)..(Len(d) - 1) : IsWhitespace(d[j])

\* 'YYYY-MM-DDTHH:MM:SSZ' of a date in one of these formats
IsoOfDate(d) == <<d[1], "T", d[CHOOSE i \in 1..Len(d) : IsTimePart(d[i])], "Z">>

\* the data rows of the URL whose date_uploaded is in the format: the export
\* format when strict, the lenient format otherwise
DatedRowsOf(url, strict) ==
    {r \in 2..Len(CsvRows) :
        /\ DocumentUrl(r) = url
        /\ IF strict THEN MatchesExportFormat(DateUploaded(r)) ELSE MatchesLenientFormat(DateUploaded(r))}

LastOf(rows) == CHOOSE r \in rows : \A q \in rows : q <= r

\* what the claim says of the step that visits `filename`
UploadStepAsClaimed(filename, strict) ==
    LET deck == decksDir[filename]
        url == IF deck = Unparseable THEN <<>> ELSE SlideshareUrl(deck)
        rows == DatedRowsOf(url, strict)
        eligible == url # <<>> /\ rows # {}
        updated == proc'.updatedCount - proc.updatedCount
        missingUrl == proc'.missingUrlCount - proc.missingUrlCount
        missingCsvMatch == proc'.missingCsvMatchCount - proc.missingCsvMatchCount
    IN /\ (filename \in proc'.written) <=> eligible
       /\ proc'.written \ {filename} = proc.written
       /\ DOMAIN decksDir' = DOMAIN decksDir
       /\ \A f \in DOMAIN decksDir \ {filename} : decksDir'[f] = decksDir[f]
       /\ IF eligible
          THEN /\ DOMAIN decksDir'[filename] = DOMAIN deck \cup {"uploadedAt"}
               /\ \A k \in DOMAIN deck \ {"uploadedAt"} : decksDir'[filename][k] = deck[k]
               /\ decksDir'[filename].uploadedAt = IsoOfDate(DateUploaded(LastOf(rows)))
          ELSE decksDir'[filename] = deck
       /\ {updated, missingUrl, missingCsvMatch} \subseteq {0, 1}
       /\ updated + missingUrl + missingCsvMatch = IF deck = Unparseable THEN 0 ELSE 1
       /\ deck # Unparseable => /\ updated = 1 <=> eligible
                                /\ missingUrl = 1 <=> url = <<>>

\* C20 as stated: a deck file is rewritten exactly when its slideshareUrl
\* (source, else legacy) is the document_url of a CSV row whose date_uploaded
\* is 'YYYY-MM-DD HH:MM:SS UTC'; then only uploadedAt changes, to the
\* 'YYYY-MM-DDTHH:MM:SSZ' of the last such row; no other file changes; every
\* parsed deck file is counted once, as updated, missing URL or missing CSV match.
C20_RewrittenIffExportFormatRow ==
    [][\A filename \in proc.todo \ proc'.todo : UploadStepAsClaimed(filename, TRUE)]_vars

\* C20, amended: the same, for CSV rows whose date_uploaded is 'YYYY-MM-DD',
\* whitespace, 'HH:MM:SS', with or without a following 'UTC'.
C20_RewrittenIffDatedRow ==
    [][\A filename \in proc.todo \ proc'.todo : UploadStepAsClaimed(filename, FALSE)]_vars

\* C20 witness: two deck files have been visited; a.json, whose URL has a row
\* in the export format followed by a row without zone, now has the date of
\* the second row in place of the uploadedAt it had; the other file was
\* counted as missing its URL or its CSV match
C20_Witness ==
    /\ proc.script = "import-uploadedAt"
    /\ proc.todo = {}
    /\ proc.written = {JsonFile("a")}
    /\ proc.updatedCount = 1
    /\ proc.missingUrlCount + proc.missingCsvMatchCount = 1
    /\ Len(CsvRows) = 3
    /\ DocumentUrl(2) = UrlA /\ MatchesExportFormat(DateUploaded(2))
    /\ DocumentUrl(3) = UrlA /\ ~MatchesExportFormat(DateUploaded(3))
    /\ decksDir[JsonFile("a")].uploadedAt = <<"2011-03-04", "T", "05:06:07", "Z">>

---------------------------------------------------------------------------
(* prepare-assets: what is attempted, and where a slug is recorded *)

ConvertLine == "Converting deck.pptx to deck.pdf..."

CoverLine == "Generating cover.webp from deck.pdf..."

\* this step announced the tool run `line`, for the deck being processed
Announces(line) ==
    /\ Len(proc'.log) = Len(proc.log) + 1
    /\ proc'.log[Len(proc'.log)] = [slug |-> Slug, line |-> line]

\* how many times slug is in the list
Occurrences(list, slug) == Cardinality({i \in 1..Len(list) : list[i] = slug})

ConvertOnlyWhenDue ==
    Announces(ConvertLine) =>
        /\ "deck.pdf" \notin decksDir[Slug].files
        /\ "deck.pptx" \in decksDir[Slug].files

CoverOnlyWhenDue ==
    Announces(CoverLine) =>
        /\ "cover.webp" \notin decksDir[Slug].files
        /\ \/ "deck.pdf" \in decksDir[Slug].files
           \/ Slug \in Range(proc.results.pdfConverted)
        /\ \E f \in decksDir[Slug].files : IsPdfName(f)
        /\ ~proc.isWindows => "deck.pdf" \in decksDir[Slug].files

\* each tool run is announced at most once for a deck, and a conversion never after the cover
StepsInOrder ==
    \A i, j \in 1..Len(proc.log) :
        (i < j /\ proc.log[i].slug = proc.log[j].slug) =>
            (proc.log[i].line = ConvertLine /\ proc.log[j].line = CoverLine)

RecordedOnce ==
    \A slug \in Range(Stems) :
        /\ Occurrences(proc.results.coverGenerated \o proc.results.coverFailed \o proc.results.skipped, slug) <= 1
        /\ Occurrences(proc.results.pdfConverted \o proc.results.pdfFailed, slug) <= 1

\* C21: processDeck starts the PPTX-to-PDF conversion only when deck.pdf is
\* missing and deck.pptx exists; it starts the cover generation only when
\* cover.webp is missing and the PDF is ready (deck.pdf is there, or the
\* conversion of this deck reported success), with a PDF file in the
\* directory, and never before the conversion; and a slug is in at most one
\* of coverGenerated, coverFailed, skipped and in at most one of
\* pdfConverted, pdfFailed, once.
C21_AssetsOnlyWhenDue ==
    /\ [][ConvertOnlyWhenDue /\ CoverOnlyWhenDue]_vars
    /\ [](StepsInOrder /\ RecordedOnce)

\* the run is over: deck a was converted and then got its cover, deck b had
\* neither source and was skipped
C21_Witness ==
    /\ proc.script = "prepare-assets" /\ proc.pc = "done"
    /\ proc.log = <<[slug |-> "a", line |-> ConvertLine], [slug |-> "a", line |-> CoverLine]>>
    /\ proc.results.pdfConverted = <<"a">>
    /\ proc.results.coverGenerated = <<"a">>
    /\ proc.results.skipped = <<"b">>
    /\ decksDir["a"].files = {"deck.pptx", "deck.pdf", "cover.webp"}

=============================================================================
